---- MODULE Spec2Model ----
(***************************************************************************)
(* Model of the article store of Python-News-Automation: the RSS collector *)
(* (src/rss_collector.py) that upserts feed entries into the SQLite table  *)
(* `articles`, and the ranker (src/news_ranker.py) that selects stories    *)
(* and tracks their selected_for_post / posted flags.                      *)
(*                                                                         *)
(* Time is counted in hours.  Texts (title, link) are sequences of         *)
(* one-character strings so that lower(), strip() and the "title|link"     *)
(* join are computed, not assumed.  md5 is taken to be injective: the      *)
(* article_hash is the string that is fed to md5.                          *)
(***************************************************************************)
EXTENDS Integers, Sequences, FiniteSets, TLC

VARIABLES rows,     \* the table `articles`: a set of row records
          nextId,   \* next AUTOINCREMENT id (ids are never reused)
          now,      \* datetime.now(), in hours
          op,       \* the last completed call: its name, arguments, return
          proc      \* per-process position of calls in flight (SpecConc)

vars == <<rows, nextId, now, op, proc>>

-----------------------------------------------------------------------------
(* Bounds of the model *)

MaxCount == 2       \* largest `count` passed to get_top_stories
MaxTicks == 2       \* times the clock advances
SelRows == 3        \* rows of a small store of SpecSelect
MaxBeyond == 1      \* rows of a large store beyond the query's LIMIT
MaxEntries == 2     \* entries of a feed in a collect_all run
WinRows == 2        \* rows of a store of SpecWindow
MaxWords == 2       \* words of the title of a parsed entry

-----------------------------------------------------------------------------
(* Program constants *)

ARCHIVE_DAYS == 7
QueryLimit == 50
FallbackHours == 48
DefaultHours == 24

Sources == {"CNN", "NBC News"}

-----------------------------------------------------------------------------
(* Texts *)

LowerChar(c) ==
    CASE c = "A" -> "a"
      [] c = "B" -> "b"
      [] c = "I" -> "i"
      [] c = "L" -> "l"
      [] c = "S" -> "s"
      [] c = "U" -> "u"
      [] c = "X" -> "x"
      [] OTHER -> c

Lower(s) == [i \in 1..Len(s) |-> LowerChar(s[i])]

IsSpace(c) == c = " "

RECURSIVE LStrip(_)
LStrip(s) == IF s # <<>> /\ IsSpace(Head(s)) THEN LStrip(Tail(s)) ELSE s

RECURSIVE RStrip(_)
RStrip(s) ==
    IF s # <<>> /\ IsSpace(s[Len(s)]) THEN RStrip(SubSeq(s, 1, Len(s) - 1)) ELSE s

Strip(s) == RStrip(LStrip(s))

\* f"{title}|{link}".lower(); md5 of it is taken as injective
_generate_hash(title, link) == Lower(title \o <<"|">> \o link)

-----------------------------------------------------------------------------
(* Feed entries.  An entry carries the raw title and link and, in place of *)
(* its description text, the values the keyword filters compute from       *)
(* title+description: category, priority_score, is_us_related, is_excluded *)

Entry(t, l, c, p, us, ex) ==
    [title |-> t, link |-> l, category |-> c, priority_score |-> p,
     is_us_related |-> us, is_excluded |-> ex]

\* the entries a feed of each source may deliver
FeedEntries(source) ==
    IF source = "CNN"
    THEN { Entry(<<"a">>, <<"x">>, "Politics", 10, TRUE, FALSE),
           Entry(<<"b">>, <<"x">>, "Politics", 17, TRUE, TRUE) }
    ELSE { Entry(<<" ", "A">>, <<"X", " ">>, "Sports", 5, TRUE, FALSE),
           Entry(<<"B">>, <<"x">>, "Economy", 7, FALSE, FALSE),
           Entry(<<" ">>, <<"x">>, "General", 0, FALSE, FALSE) }

RECURSIVE SeqsUpTo(_, _)
SeqsUpTo(S, n) ==
    IF n = 0 THEN {<<>>}
    ELSE LET shorter == SeqsUpTo(S, n - 1)
         IN  shorter \cup {Append(s, e) : s \in shorter, e \in S}

\* the feeds of a source: each of its entries at most once, in any order
Feeds(source) ==
    {f \in SeqsUpTo(FeedEntries(source), Cardinality(FeedEntries(source))) :
        \A i, j \in 1..Len(f) : f[i] = f[j] => i = j}

-----------------------------------------------------------------------------
(* The table *)

HashPresent(rs, h) == \E r \in rs : r.article_hash = h

NewRow(id, h, title, link, e, source, t) ==
    [id |-> id, article_hash |-> h, title |-> title, link |-> link,
     source |-> source, category |-> e.category, collected_time |-> t,
     priority_score |-> e.priority_score, is_us_related |-> e.is_us_related,
     is_excluded |-> e.is_excluded, selected_for_post |-> FALSE,
     posted |-> FALSE]

\* a plain INSERT into a table without the UNIQUE constraint
InsertOrIgnore_NoUnique(st, h, title, link, e, source, t) ==
    [rows |-> st.rows \cup {NewRow(st.nextId, h, title, link, e, source, t)},
     nextId |-> st.nextId + 1,
     added |-> st.added + 1]

\* INSERT OR REPLACE: the stored row of the fingerprint gives way to a new one
InsertOrIgnore_Replace(st, h, title, link, e, source, t) ==
    [rows |-> {r \in st.rows : r.article_hash # h}
                 \cup {NewRow(st.nextId, h, title, link, e, source, t)},
     nextId |-> st.nextId + 1,
     added |-> st.added + 1]

\* INSERT OR IGNORE under article_hash UNIQUE: st is [rows, nextId, added]
InsertOrIgnore(st, h, title, link, e, source, t) ==
    IF HashPresent(st.rows, h)
    THEN st
    ELSE [rows |-> st.rows \cup {NewRow(st.nextId, h, title, link, e, source, t)},
          nextId |-> st.nextId + 1,
          added |-> st.added + 1]

\* the loop body without its "if not title or not link: continue"
ProcessEntry_NoSkip(st, e, source, t) ==
    LET title == Strip(e.title)
        link == Strip(e.link)
    IN  InsertOrIgnore(st, _generate_hash(title, link), title, link,
                       e, source, t)

\* one iteration of the loop over feed.entries
ProcessEntry(st, e, source, t) ==
    LET title == Strip(e.title)
        link == Strip(e.link)
    IN  IF title = <<>> \/ link = <<>>
        THEN st
        ELSE InsertOrIgnore(st, _generate_hash(title, link), title, link,
                            e, source, t)

RECURSIVE CollectLoop(_, _, _, _, _)
CollectLoop(st, feed, i, source, t) ==
    IF i > Len(feed) THEN st
    ELSE CollectLoop(ProcessEntry(st, feed[i], source, t), feed, i + 1,
                     source, t)

collect_feed(rs, nid, feed, source, t) ==
    CollectLoop([rows |-> rs, nextId |-> nid, added |-> 0], feed, 1, source, t)

\* the DELETE without its "AND posted = 0"
_clean_old_articles_AnyState(rs, t) ==
    LET cutoff_date == t - ARCHIVE_DAYS * 24
    IN  {r \in rs : ~(r.collected_time < cutoff_date)}

\* the DELETE sparing the rows that are selected as well
_clean_old_articles_KeepSelected(rs, t) ==
    LET cutoff_date == t - ARCHIVE_DAYS * 24
    IN  {r \in rs : ~(r.collected_time < cutoff_date /\ ~r.posted
                        /\ ~r.selected_for_post)}

\* DELETE FROM articles WHERE collected_time < cutoff AND posted = 0
_clean_old_articles(rs, t) ==
    LET cutoff_date == t - ARCHIVE_DAYS * 24
    IN  {r \in rs : ~(r.collected_time < cutoff_date /\ ~r.posted)}

-----------------------------------------------------------------------------
(* The ranker *)

\* the WHERE clause without its "AND is_excluded = 0"
IsCandidate_NoExclusion(r, cutoff_time) ==
    /\ r.is_us_related
    /\ ~r.selected_for_post
    /\ r.collected_time >= cutoff_time

\* WHERE clause of the candidate query
IsCandidate(r, cutoff_time) ==
    /\ r.is_us_related
    /\ ~r.is_excluded
    /\ ~r.selected_for_post
    /\ r.collected_time >= cutoff_time

\* ORDER BY priority_score DESC, collected_time DESC
RanksBefore(a, b) ==
    \/ a.priority_score > b.priority_score
    \/ /\ a.priority_score = b.priority_score
       /\ a.collected_time > b.collected_time

\* every order the engine may return S in, cut to the first k rows; rows
\* that tie on both sort keys come in any order
RECURSIVE OrderedSeqs(_, _)
OrderedSeqs(S, k) ==
    IF S = {} \/ k = 0 THEN {<<>>}
    ELSE LET tops == {m \in S : \A o \in S : ~RanksBefore(o, m)}
         IN  UNION {{<<m>> \o s : s \in OrderedSeqs(S \ {m}, k - 1)} : m \in tops}

CandidateQuery(rs, cutoff_time) ==
    OrderedSeqs({r \in rs : IsCandidate(r, cutoff_time)}, QueryLimit)

InSeq(x, s) == \E i \in 1..Len(s) : s[i] = x

\* the first pass without its "category not in used_categories" test
RECURSIVE FirstPass_AnyCategory(_, _, _, _, _)
FirstPass_AnyCategory(candidates, count, i, selected, used_categories) ==
    IF i > Len(candidates)
    THEN [selected |-> selected, returned |-> FALSE]
    ELSE LET sel2 == Append(selected, candidates[i])
         IN  IF Len(sel2) >= count
             THEN [selected |-> sel2, returned |-> TRUE]
             ELSE FirstPass_AnyCategory(candidates, count, i + 1, sel2,
                                        used_categories)

\* first pass: one story per category, returning as soon as count is reached
RECURSIVE FirstPass(_, _, _, _, _)
FirstPass(candidates, count, i, selected, used_categories) ==
    IF i > Len(candidates)
    THEN [selected |-> selected, returned |-> FALSE]
    ELSE LET article == candidates[i]
         IN  IF article.category \notin used_categories
             THEN LET sel2 == Append(selected, article)
                  IN  IF Len(sel2) >= count
                      THEN [selected |-> sel2, returned |-> TRUE]
                      ELSE FirstPass(candidates, count, i + 1, sel2,
                                     used_categories \cup {article.category})
             ELSE FirstPass(candidates, count, i + 1, selected, used_categories)

\* list.sort(key=priority_score, reverse=True): stable insertion of x
RECURSIVE InsertStable(_, _)
InsertStable(sorted, x) ==
    IF sorted = <<>> THEN <<x>>
    ELSE IF Head(sorted).priority_score >= x.priority_score
         THEN <<Head(sorted)>> \o InsertStable(Tail(sorted), x)
         ELSE <<x>> \o sorted

RECURSIVE SortByPriority(_)
SortByPriority(s) ==
    IF s = <<>> THEN <<>>
    ELSE InsertStable(SortByPriority(SubSeq(s, 1, Len(s) - 1)), s[Len(s)])

Min(a, b) == IF a < b THEN a ELSE b

SecondPass(candidates, count, selected) ==
    LET remaining == SortByPriority(
                        SelectSeq(candidates, LAMBDA a : ~InSeq(a, selected)))
        take == Min(count - Len(selected), Len(remaining))
    IN  IF Len(selected) < count
        THEN selected \o SubSeq(remaining, 1, take)
        ELSE selected

_select_diverse_stories(candidates, count) ==
    IF Len(candidates) <= count THEN candidates
    ELSE LET p1 == FirstPass(candidates, count, 1, <<>>, {})
         IN  IF p1.returned THEN p1.selected
             ELSE SecondPass(candidates, count, p1.selected)

IdsOf(s) == {s[i].id : i \in 1..Len(s)}

\* UPDATE articles SET selected_for_post = 1 WHERE id IN (...)
_mark_as_selected(rs, article_ids) ==
    {IF r.id \in article_ids THEN [r EXCEPT !.selected_for_post = TRUE] ELSE r
       : r \in rs}

\* UPDATE articles SET posted = 1 WHERE id IN (...)
mark_as_posted(rs, article_ids) ==
    {IF r.id \in article_ids THEN [r EXCEPT !.posted = TRUE] ELSE r : r \in rs}

\* the UPDATE without its "WHERE posted = 0"
reset_selections_All(rs) ==
    {[r EXCEPT !.selected_for_post = FALSE] : r \in rs}

\* UPDATE articles SET selected_for_post = 0 WHERE posted = 0
reset_selections(rs) ==
    {IF ~r.posted THEN [r EXCEPT !.selected_for_post = FALSE] ELSE r : r \in rs}

\* the second query made with twice the given hours
ReadCandidates_Doubled(rs, t, hours) ==
    LET first == CandidateQuery(rs, t - hours)
    IN  IF first = {<<>>} THEN CandidateQuery(rs, t - 2 * hours) ELSE first

\* the candidate lists get_top_stories may read: the given window, and the
\* 48 hour window when the first query returns nothing
ReadCandidates(rs, t, hours) ==
    LET first == CandidateQuery(rs, t - hours)
    IN  IF first = {<<>>} THEN CandidateQuery(rs, t - FallbackHours) ELSE first

-----------------------------------------------------------------------------
(* Sequential system: every call runs to completion *)

NoProc == [p \in {1, 2} |-> [pc |-> "idle"]]

Init ==
    /\ rows = {}
    /\ nextId = 1
    /\ now = 0
    /\ op = [name |-> "init"]
    /\ proc = NoProc

\* the clock advances by a day or by the retention period
Elapse == {24, ARCHIVE_DAYS * 24}

\* the clock values reachable by at most n advances
ClockValues(n) ==
    {24 * ab[1] + ARCHIVE_DAYS * 24 * ab[2] :
        ab \in {x \in (0..n) \X (0..n) : x[1] + x[2] <= n}}

Tick ==
    /\ \E d \in Elapse :
          /\ now + d \in ClockValues(MaxTicks)
          /\ now' = now + d
    /\ op' = [name |-> "tick"]
    /\ UNCHANGED <<rows, nextId, proc>>

CollectFeed(feed, source) ==
    LET st == collect_feed(rows, nextId, feed, source, now)
    IN  /\ rows' = st.rows
        /\ nextId' = st.nextId
        /\ op' = [name |-> "collect_feed", added |-> st.added]
        /\ UNCHANGED <<now, proc>>

CleanOldArticles ==
    /\ rows' = _clean_old_articles(rows, now)
    /\ op' = [name |-> "_clean_old_articles"]
    /\ UNCHANGED <<nextId, now, proc>>

GetTopStories(count, hours) ==
    \E candidates \in ReadCandidates(rows, now, hours) :
       LET selected == _select_diverse_stories(candidates, count)
       IN  /\ rows' = IF selected # <<>>
                      THEN _mark_as_selected(rows, IdsOf(selected))
                      ELSE rows
           /\ op' = [name |-> "get_top_stories", count |-> count,
                     hours |-> hours, candidates |-> candidates,
                     result |-> selected]
           /\ UNCHANGED <<nextId, now, proc>>

\* ids a caller may pass: those in the table and one that is not
KnownIds == {r.id : r \in rows} \cup {nextId}

MarkAsPosted(article_ids) ==
    /\ rows' = mark_as_posted(rows, article_ids)
    /\ op' = [name |-> "mark_as_posted"]
    /\ UNCHANGED <<nextId, now, proc>>

ResetSelections ==
    /\ rows' = reset_selections(rows)
    /\ op' = [name |-> "reset_selections"]
    /\ UNCHANGED <<nextId, now, proc>>

Next ==
    \/ Tick
    \/ \E source \in Sources : \E feed \in Feeds(source) : CollectFeed(feed, source)
    \/ CleanOldArticles
    \/ \E count \in 0..MaxCount : GetTopStories(count, DefaultHours)
    \/ \E ids \in SUBSET KnownIds : MarkAsPosted(ids)
    \/ ResetSelections

Spec == Init /\ [][Next]_vars

-----------------------------------------------------------------------------
(* Properties of the sequential system *)

\* selection_state of a row, as encoded by its two flags
State(r) ==
    IF r.posted THEN "Posted"
    ELSE IF r.selected_for_post THEN "Selected" ELSE "Unselected"

HasId(rs, id) == \E r \in rs : r.id = id

RowOf(rs, id) == CHOOSE r \in rs : r.id = id

OneRowPerFingerprint ==
    \A r1, r2 \in rows : r1.article_hash = r2.article_hash => r1 = r2

\* the (title, link) pair of entry e, as collect_feed extracts it, is stored
PairStored(rs, e) ==
    \E r \in rs : r.title = Strip(e.title) /\ r.link = Strip(e.link)

\* the feeds of a source made only of entries whose pair is stored
StoredFeeds(source) ==
    {f \in Feeds(source) : \A i \in 1..Len(f) : PairStored(rows, f[i])}

\* collect_feed, given any feed of stored pairs, returns the same number of rows
ReingestKeepsCount ==
    \A source \in Sources : \A feed \in StoredFeeds(source) :
       Cardinality(collect_feed(rows, nextId, feed, source, now).rows)
          = Cardinality(rows)

\* C1: the store never holds two rows with the same fingerprint, and in
\* every store the program reaches a collect_feed whose entries all carry
\* (title, link) pairs that are already stored leaves the number of rows
\* unchanged.
C1_AtMostOneRowPerFingerprint ==
    OneRowPerFingerprint /\ ReingestKeepsCount

\* a collect_feed of a non-empty feed has just added nothing to a store
\* that holds the pair of one of its entries
C1_Witness ==
    /\ op.name = "collect_feed"
    /\ op.added = 0
    /\ \E source \in Sources : \E e \in FeedEntries(source) : PairStored(rows, e)
    /\ Cardinality(rows) = 2

AllowedChange(r, r2, name) ==
    \/ State(r2) = State(r)
    \/ State(r) = "Unselected" /\ State(r2) = "Selected"
         /\ name = "get_top_stories"
    \/ State(r) = "Selected" /\ State(r2) = "Unselected"
         /\ name = "reset_selections"
    \/ State(r) = "Selected" /\ State(r2) = "Posted"
         /\ name = "mark_as_posted"

\* C2: a row is created Unselected; its state changes only Unselected ->
\* Selected (get_top_stories), Selected -> Unselected (reset_selections) or
\* Selected -> Posted (mark_as_posted); a Posted row stays Posted.
C2_LifecycleTransitions ==
    [][\A r2 \in rows' :
          IF HasId(rows, r2.id)
          THEN AllowedChange(RowOf(rows, r2.id), r2, op'.name)
          ELSE State(r2) = "Unselected"]_vars

\* C3: mark_as_posted(ids) sets posted on the given ids that are Selected
\* and leaves every other row, given or not, exactly as it was.
C3_MarkPostedOnlySelected ==
    [][op'.name = "mark_as_posted" =>
       \A ids \in SUBSET KnownIds :
          MarkAsPosted(ids) =>
             \A r \in rows :
                IF r.id \in ids /\ State(r) = "Selected"
                THEN [r EXCEPT !.posted = TRUE] \in rows'
                ELSE r \in rows']_vars

C5_OnlyEligibleSelected ==
    /\ \A r \in rows : r.selected_for_post => r.is_us_related /\ ~r.is_excluded
    /\ op.name = "get_top_stories" =>
          \A i \in 1..Len(op.result) :
             op.result[i].is_us_related /\ ~op.result[i].is_excluded

\* get_top_stories has just returned a row although an excluded, unselected
\* row of the same window has a higher priority_score
C5_Witness ==
    /\ op.name = "get_top_stories"
    /\ op.result # <<>>
    /\ \E r \in rows :
          /\ r.is_excluded /\ r.is_us_related /\ ~r.selected_for_post
          /\ r.collected_time >= now - op.hours
          /\ r.priority_score > op.result[1].priority_score

\* C6: a Posted row is in the store after every step, and a row leaves the
\* store only by _clean_old_articles, when it is older than ARCHIVE_DAYS
\* and not Posted.
C6_PostedNeverDeleted ==
    [][\A r \in rows :
          \/ \E r2 \in rows' : r2.id = r.id /\ (r.posted => r2.posted)
          \/ /\ op'.name = "_clean_old_articles"
             /\ ~r.posted
             /\ r.collected_time < now - ARCHIVE_DAYS * 24]_vars

\* the purge has just run and a Posted row older than the retention
\* period is still stored
C6_Witness ==
    /\ op.name = "_clean_old_articles"
    /\ \E r \in rows : r.posted /\ r.collected_time < now - ARCHIVE_DAYS * 24

\* C14: _clean_old_articles deletes exactly the rows collected more than
\* ARCHIVE_DAYS before now whose state is not Posted, Selected ones
\* included; every other row stays with all its fields.
C14_PurgeDeletesExactlyOldUnposted ==
    [][op'.name = "_clean_old_articles" =>
          rows' = {r \in rows : ~(/\ r.collected_time < now - ARCHIVE_DAYS * 24
                                   /\ State(r) # "Posted")}]_vars

\* the purge has just run on two old rows: the Posted one is all that is
\* left, the other one is gone
C14_Witness ==
    /\ op.name = "_clean_old_articles"
    /\ nextId = 3
    /\ Cardinality(rows) = 1
    /\ \A r \in rows :
          State(r) = "Posted" /\ r.collected_time < now - ARCHIVE_DAYS * 24

\* the rows the claims call eligible candidates of a window
Eligible(rs, t, hours) ==
    {r \in rs : /\ r.is_us_related
                /\ ~r.is_excluded
                /\ State(r) = "Unselected"
                /\ r.collected_time >= t - hours}

\* C16 as claimed: when no row is eligible in the window of the call nor
\* in the 48 hour window, get_top_stories returns the empty list and
\* leaves the store as it was.
C16_EmptyWhenNoEligible ==
    [][(/\ op'.name = "get_top_stories"
        /\ Eligible(rows, now, op'.hours) = {}
        /\ Eligible(rows, now, FallbackHours) = {})
          => op'.result = <<>> /\ rows' = rows]_vars

\* the window whose rows a get_top_stories call is to rank
WindowOf(rs, t, hours) ==
    IF Eligible(rs, t, hours) # {} THEN hours ELSE FallbackHours

\* C20 as claimed: the candidates of a get_top_stories call are eligible
\* rows of its window, each once, as many as there are up to QueryLimit,
\* in descending order of priority_score then collected_time, and no
\* eligible row left out ranks before one of them.
C20_CandidatesAreTopEligible ==
    [][op'.name = "get_top_stories" =>
          LET E == Eligible(rows, now, WindowOf(rows, now, op'.hours))
              c == op'.candidates
          IN  /\ \A i \in 1..Len(c) : c[i] \in E
              /\ \A i, j \in 1..Len(c) : c[i] = c[j] => i = j
              /\ Len(c) = Min(Cardinality(E), QueryLimit)
              /\ \A i, j \in 1..Len(c) : i < j => ~RanksBefore(c[j], c[i])
              /\ \A e \in E : ~InSeq(e, c) =>
                    \A i \in 1..Len(c) : ~RanksBefore(e, c[i])]_vars

-----------------------------------------------------------------------------
(* The ranker on a filled store.  SpecSelect starts from a store as a      *)
(* series of collect_feed calls leaves it (every row Unselected, ids in    *)
(* the order of collected_time) and runs the ranker on it.                 *)

SelNow == FallbackHours + DefaultHours

Item(c, p, us, ex, age) ==
    [category |-> c, priority_score |-> p, is_us_related |-> us,
     is_excluded |-> ex, age |-> age]

\* what the rows of a small store may be, oldest first
SelItems ==
    << Item("Politics", 10, TRUE, FALSE, FallbackHours),
       Item("Politics", 10, TRUE, FALSE, DefaultHours),
       Item("Politics", 10, TRUE, FALSE, 0),
       Item("Politics", 5, TRUE, FALSE, 0),
       Item("Sports", 10, TRUE, FALSE, 0),
       Item("Sports", 5, TRUE, FALSE, 0),
       Item("Technology", 5, TRUE, FALSE, 0),
       Item("Politics", 17, TRUE, TRUE, 0),
       Item("Sports", 12, FALSE, FALSE, 0) >>

\* the non-decreasing sequences over 1..m of length n
RECURSIVE Ascending(_, _)
Ascending(m, n) ==
    IF n = 0 THEN {<<>>}
    ELSE {Append(s, k) : s \in Ascending(m, n - 1), k \in 1..m}
            \cap {s \in [1..n -> 1..m] : \A i \in 1..(n - 1) : s[i] <= s[i + 1]}

\* the title of the i-th row of a constructed store: i letters
TitleOf(i) == [k \in 1..i |-> "a"]

ItemRow(i, item) ==
    NewRow(i, _generate_hash(TitleOf(i), <<"x">>), TitleOf(i), <<"x">>,
           item, "CNN", SelNow - item.age)

SmallStore(s) == {ItemRow(i, SelItems[s[i]]) : i \in 1..Len(s)}

SmallStores ==
    {SmallStore(s) : s \in UNION {Ascending(Len(SelItems), n) : n \in 0..SelRows}}

\* n rows of strictly descending priority_score, the first QueryLimit of
\* them Politics and the rest Sports
LargeStore(n) ==
    {ItemRow(i, Item(IF i <= QueryLimit THEN "Politics" ELSE "Sports",
                     5 * (n + 1 - i), TRUE, FALSE, 0)) : i \in 1..n}

LargeStores == {LargeStore(n) : n \in QueryLimit..(QueryLimit + MaxBeyond)}

InitSelect ==
    /\ rows \in SmallStores \cup LargeStores
    /\ nextId = Cardinality(rows) + 1
    /\ now = SelNow
    /\ op = [name |-> "init"]
    /\ proc = NoProc

\* the UPDATE of _mark_as_selected raising after its first row was written
\* and that row staying written
FailedUpdate_Partial(rs, article_ids) ==
    _mark_as_selected(rs, {CHOOSE i \in article_ids :
                              \A j \in article_ids : i <= j})

\* the UPDATE of _mark_as_selected raises sqlite3.Error: the statement is
\* rolled back, commit is not reached, no row is changed
FailedUpdate(rs, article_ids) == rs

\* get_top_stories when _mark_as_selected raises: the exception leaves
\* get_top_stories, nothing is returned
GetTopStoriesMarkRaises(count, hours) ==
    \E candidates \in ReadCandidates(rows, now, hours) :
       LET selected == _select_diverse_stories(candidates, count)
       IN  /\ selected # <<>>
           /\ rows' = FailedUpdate(rows, IdsOf(selected))
           /\ op' = [name |-> "get_top_stories raised", count |-> count,
                     hours |-> hours, candidates |-> candidates,
                     chosen |-> selected]
           /\ UNCHANGED <<nextId, now, proc>>

NextSelect ==
    \/ \E count \in 0..MaxCount : GetTopStories(count, DefaultHours)
    \/ \E count \in 0..MaxCount : GetTopStoriesMarkRaises(count, DefaultHours)
    \/ ResetSelections

SpecSelect == InitSelect /\ [][NextSelect]_vars

CategoriesOf(s) == {s[i].category : i \in 1..Len(s)}

NoDuplicateCategory(s) ==
    \A i, j \in 1..Len(s) : s[i].category = s[j].category => i = j

\* C8: when at least N eligible candidates are in the window,
\* get_top_stories(N) returns exactly N rows.
C8_ExactlyN ==
    [][op'.name = "get_top_stories" =>
          (Cardinality(Eligible(rows, now, op'.hours)) >= op'.count
              => Len(op'.result) = op'.count)]_vars

\* C9 as claimed: when N is at most the number of distinct categories
\* among the eligible candidates, the rows get_top_stories(N) returns have
\* pairwise different categories.
C9_DiverseOverEligible ==
    [][op'.name = "get_top_stories" =>
          (op'.count <= Cardinality({r.category :
                                       r \in Eligible(rows, now, op'.hours)})
              => NoDuplicateCategory(op'.result))]_vars

\* C9: when N is at most the number of distinct categories among the
\* candidates the query returned (the QueryLimit top-ranked eligible
\* rows), the rows get_top_stories(N) returns have pairwise different
\* categories.
C9_DiverseOverCandidates ==
    op.name = "get_top_stories" =>
       (op.count <= Cardinality(CategoriesOf(op.candidates))
           => NoDuplicateCategory(op.result))

\* get_top_stories(2) has passed over its second-ranked candidate, of the
\* category already taken, for a lower-ranked one of another category
C9_Witness ==
    /\ op.name = "get_top_stories"
    /\ op.count = 2
    /\ Len(op.candidates) > 2
    /\ op.candidates[1].category = op.candidates[2].category
    /\ Len(op.result) = 2
    /\ op.result[2] # op.candidates[2]
    /\ op.result[1].category # op.result[2].category

HashesOf(s) == [i \in 1..Len(s) |-> s[i].article_hash]

\* C17 as claimed: the articles get_top_stories returns are the same for
\* every order in which the engine may deliver the rows that tie on
\* priority_score and collected_time.
C17_DeterministicSelection ==
    [][op'.name = "get_top_stories" =>
          \A c \in ReadCandidates(rows, now, op'.hours) :
             HashesOf(_select_diverse_stories(c, op'.count))
                = HashesOf(op'.result)]_vars

\* the positions of the candidates that are the first of their category
FirstsOf(c) ==
    SelectSeq([i \in 1..Len(c) |-> i],
              LAMBDA i : \A j \in 1..(i - 1) : c[j].category # c[i].category)

\* C19 as claimed: with more than N candidates, get_top_stories(N) returns
\* N rows: first, in rank order, the first candidates of the categories
\* (at most N), then candidates not yet taken, in descending
\* priority_score, none of them below a candidate left out; the
\* top-ranked candidate is among the rows returned.
C19_TwoPassSelection ==
    (op.name = "get_top_stories" /\ Len(op.candidates) > op.count) =>
       LET c == op.candidates
           res == op.result
           firsts == FirstsOf(c)
           k == Min(op.count, Len(firsts))
       IN  /\ Len(res) = op.count
           /\ \A i \in 1..k : res[i] = c[firsts[i]]
           /\ \A i \in (k + 1)..Len(res) :
                 /\ InSeq(res[i], c)
                 /\ \A j \in 1..(i - 1) : res[j] # res[i]
                 /\ \A j \in (k + 1)..(i - 1) :
                       res[j].priority_score >= res[i].priority_score
                 /\ \A u \in 1..Len(c) :
                       ~InSeq(c[u], res) =>
                          res[i].priority_score >= c[u].priority_score
           /\ InSeq(c[1], res)

\* the rows one get_top_stories call chose
Chosen(o) == IF o.name = "get_top_stories" THEN o.result ELSE o.chosen

\* some of the chosen rows are Selected while others are still Unselected
PartiallySelected(rs, chosen) ==
    /\ \E r \in rs : r.id \in IdsOf(chosen) /\ State(r) = "Selected"
    /\ \E r \in rs : r.id \in IdsOf(chosen) /\ State(r) = "Unselected"

-----------------------------------------------------------------------------
(* Concurrent system: two processes, each with its own connections to the  *)
(* store.  A statement on a connection (the INSERT OR IGNORE of one entry, *)
(* the candidate queries, the UPDATE of _mark_as_selected) is atomic; the  *)
(* statements of different processes interleave.                           *)

Procs == {1, 2}

\* the source a process collects
SourceOf(p) == IF p = 1 THEN "CNN" ELSE "NBC News"

\* feedparser.parse has returned: the loop over the entries begins
StartCollect(p, feed) ==
    /\ proc[p].pc = "idle"
    /\ proc' = [proc EXCEPT ![p] = [pc |-> "collect", feed |-> feed, i |-> 1,
                                    added |-> 0]]
    /\ UNCHANGED <<rows, nextId, now, op>>

\* one iteration of the loop: the INSERT OR IGNORE and its commit
CollectEntry(p) ==
    /\ proc[p].pc = "collect"
    /\ proc[p].i <= Len(proc[p].feed)
    /\ LET st == ProcessEntry([rows |-> rows, nextId |-> nextId,
                               added |-> proc[p].added],
                              proc[p].feed[proc[p].i], SourceOf(p), now)
       IN  /\ rows' = st.rows
           /\ nextId' = st.nextId
           /\ proc' = [proc EXCEPT ![p].i = @ + 1, ![p].added = st.added]
    /\ UNCHANGED <<now, op>>

\* return added_count
CollectReturn(p) ==
    /\ proc[p].pc = "collect"
    /\ proc[p].i > Len(proc[p].feed)
    /\ op' = [name |-> "collect_feed", added |-> proc[p].added]
    /\ proc' = [proc EXCEPT ![p] = [pc |-> "idle"]]
    /\ UNCHANGED <<rows, nextId, now>>

\* get_top_stories up to conn.close(): the queries and the choice of the
\* stories; with nothing selected the call returns at once
SelectStories(p, count, hours) ==
    /\ proc[p].pc = "idle"
    /\ \E candidates \in ReadCandidates(rows, now, hours) :
          LET selected == _select_diverse_stories(candidates, count)
          IN  IF selected # <<>>
              THEN /\ proc' = [proc EXCEPT ![p] =
                                 [pc |-> "mark", count |-> count,
                                  hours |-> hours, candidates |-> candidates,
                                  selected |-> selected]]
                   /\ op' = op
              ELSE /\ proc' = proc
                   /\ op' = [name |-> "get_top_stories", count |-> count,
                             hours |-> hours, candidates |-> candidates,
                             result |-> selected]
    /\ UNCHANGED <<rows, nextId, now>>

\* _mark_as_selected on its own connection, then return selected
MarkSelected(p) ==
    /\ proc[p].pc = "mark"
    /\ rows' = _mark_as_selected(rows, IdsOf(proc[p].selected))
    /\ op' = [name |-> "get_top_stories", count |-> proc[p].count,
              hours |-> proc[p].hours, candidates |-> proc[p].candidates,
              result |-> proc[p].selected]
    /\ proc' = [proc EXCEPT ![p] = [pc |-> "idle"]]
    /\ UNCHANGED <<nextId, now>>

NextConc ==
    \E p \in Procs :
       \/ \E feed \in Feeds(SourceOf(p)) : StartCollect(p, feed)
       \/ CollectEntry(p)
       \/ CollectReturn(p)
       \/ \E count \in 0..MaxCount : SelectStories(p, count, DefaultHours)
       \/ MarkSelected(p)

SpecConc == Init /\ [][NextConc]_vars

\* C7: two get_top_stories calls that have both chosen their stories and
\* not yet returned have chosen disjoint sets of rows.
C7_OverlappingSelectionsDisjoint ==
    \A p, q \in Procs :
       (p # q /\ proc[p].pc = "mark" /\ proc[q].pc = "mark")
          => IdsOf(proc[p].selected) \cap IdsOf(proc[q].selected) = {}

\* the entries of its feed a collector has gone through and not skipped
Upserted(p) ==
    {proc[p].feed[j] : j \in 1..(proc[p].i - 1)} \ 
    {e \in FeedEntries(SourceOf(p)) :
        Strip(e.title) = <<>> \/ Strip(e.link) = <<>>}

RowsWithHash(h) == {r \in rows : r.article_hash = h}

\* C10: whatever the interleaving of the collectors' inserts, every
\* fingerprint a collector has upserted has exactly one row.
C10_ConcurrentUpsertsOneRow ==
    \A p \in Procs :
       proc[p].pc = "collect" =>
          \A e \in Upserted(p) :
             Cardinality(RowsWithHash(
                _generate_hash(Strip(e.title), Strip(e.link)))) = 1

\* both collectors are through their feeds, each has upserted an entry of
\* the same fingerprint, and each has added a row
C10_Witness ==
    /\ \A p \in Procs :
          /\ proc[p].pc = "collect"
          /\ proc[p].i > Len(proc[p].feed)
          /\ proc[p].added = 1
    /\ \E e1 \in Upserted(1), e2 \in Upserted(2) :
          _generate_hash(Strip(e1.title), Strip(e1.link))
             = _generate_hash(Strip(e2.title), Strip(e2.link))

-----------------------------------------------------------------------------
(* One collect_all run: the endpoints of RSS_FEEDS are walked in order,    *)
(* each by one collect_feed call, then _clean_old_articles runs.  A fetch  *)
(* may fail (the outer except of collect_feed returns 0) and the INSERT of *)
(* an entry may raise sqlite3.Error (the inner except goes on to the next  *)
(* entry).  The model walks the first two sources of RSS_FEEDS.            *)

\* the source of each endpoint, in the order collect_all walks them
Endpoints ==
    << "CNN", "CNN", "CNN", "CNN", "NBC News", "NBC News", "NBC News" >>

\* title or link missing, or empty once stripped
Malformed(e) == Strip(e.title) = <<>> \/ Strip(e.link) = <<>>

\* the entries an endpoint may deliver: those of FeedEntries and entries
\* without a title (entry.get gives '') or with a blank link
CycleEntries(source) ==
    FeedEntries(source) \cup
    (IF source = "CNN"
     THEN { Entry(<<>>, <<"x">>, "General", 0, FALSE, FALSE) }
     ELSE { Entry(<<"b">>, <<" ">>, "Economy", 7, FALSE, FALSE) })

CycleFeeds(source) ==
    {f \in SeqsUpTo(CycleEntries(source), MaxEntries) :
        \A i, j \in 1..Len(f) : f[i] = f[j] => i = j}

HashOf(e) == _generate_hash(Strip(e.title), Strip(e.link))

\* where the upsert of an entry may raise sqlite3.Error
FailurePoints == {"execute", "commit"}

\* the loop body when the upsert of this entry raises at `point`; the
\* except clause prints and continues.  At cursor.execute nothing is
\* written or counted; at conn.commit the row is rolled back after
\* added_count was incremented for it
ProcessEntryOrError(st, e, point, source, t) ==
    IF point = "none" \/ Malformed(e) THEN ProcessEntry(st, e, source, t)
    ELSE IF point = "execute" THEN st
    ELSE [st EXCEPT !.added = ProcessEntry(st, e, source, t).added]

\* the loop over feed.entries when the upsert of entry `bad` raises at
\* `point` (bad = 0: no upsert raises)
RECURSIVE CollectLoopOrError(_, _, _, _, _, _, _)
CollectLoopOrError(st, feed, i, bad, point, source, t) ==
    IF i > Len(feed) THEN st
    ELSE CollectLoopOrError(
            ProcessEntryOrError(st, feed[i], IF i = bad THEN point ELSE "none",
                                source, t),
            feed, i + 1, bad, point, source, t)

\* the outcomes of one collect_feed call: the fetch raised and 0 is
\* returned, or the loop ran over the entries of some feed
FetchFailed == [fetched |-> FALSE]

Fetched(feed, bad, point) ==
    [fetched |-> TRUE, feed |-> feed, bad |-> bad, point |-> point]

FeedOutcomes(source) ==
    {FetchFailed} \cup
    {Fetched(feed, 0, "none") : feed \in CycleFeeds(source)} \cup
    UNION {{Fetched(feed, bad, point) :
               bad \in 1..Len(feed), point \in FailurePoints} :
             feed \in CycleFeeds(source)}

collect_feed_outcome(rs, nid, outcome, source, t) ==
    IF outcome.fetched
    THEN CollectLoopOrError([rows |-> rs, nextId |-> nid, added |-> 0],
                            outcome.feed, 1, outcome.bad, outcome.point,
                            source, t)
    ELSE [rows |-> rs, nextId |-> nid, added |-> 0]

\* collect_all aborting at the first endpoint whose fetch fails
NextEndpoint_AbortOnFailure(k, outcome) ==
    IF outcome.fetched THEN k + 1 ELSE Len(Endpoints) + 1

\* the inner for loop of collect_all goes on to the next endpoint whatever
\* collect_feed returned
NextEndpoint(k, outcome) == k + 1

\* the entries of a fetched feed whose INSERT ran without raising
Executed(outcome) ==
    IF outcome.fetched
    THEN {outcome.feed[i] : i \in {j \in 1..Len(outcome.feed) :
                                     j # outcome.bad
                                     /\ ~Malformed(outcome.feed[j])}}
    ELSE {}

\* an entry of the feed that comes after a malformed one is inserted into rs
StoredAfterMalformed(rs, outcome) ==
    /\ outcome.fetched
    /\ \E i, j \in 1..Len(outcome.feed) :
          /\ i < j
          /\ Malformed(outcome.feed[i])
          /\ ~Malformed(outcome.feed[j])
          /\ j # outcome.bad
          /\ ~HashPresent(rs, HashOf(outcome.feed[j]))

\* an INSERT of the feed raised
InsertRaised(outcome) ==
    /\ outcome.fetched
    /\ outcome.bad \in 1..Len(outcome.feed)
    /\ ~Malformed(outcome.feed[outcome.bad])

\* the fingerprints among hashes that are stored with another source
IgnoredFromOther(rs, hashes, source) ==
    {h \in hashes : \E r \in rs : r.article_hash = h /\ r.source # source}

CollectAllStart ==
    [pc |-> "collect_all", k |-> 1, stats |-> [s \in Sources |-> 0],
     inserted |-> [s \in Sources |-> 0],
     attempted |-> <<>>, fetchFailed |-> FALSE, addedAfterFailure |-> FALSE,
     executed |-> {}, ignored |-> {}, insertRaised |-> FALSE,
     skipped |-> FALSE]

\* collect_all is called
StartCollectAll ==
    /\ proc[1].pc = "idle"
    /\ proc' = [proc EXCEPT ![1] = CollectAllStart]
    /\ UNCHANGED <<rows, nextId, now, op>>

\* added = self.collect_feed(feed_url, source_name); source_total += added
AttemptEndpoint(outcome) ==
    /\ proc[1].pc = "collect_all"
    /\ proc[1].k <= Len(Endpoints)
    /\ LET k == proc[1].k
           source == Endpoints[k]
           st == collect_feed_outcome(rows, nextId, outcome, source, now)
           hashes == {HashOf(e) : e \in Executed(outcome)}
       IN  /\ rows' = st.rows
           /\ nextId' = st.nextId
           /\ proc' = [proc EXCEPT
                 ![1].k = NextEndpoint(k, outcome),
                 ![1].stats[source] = @ + st.added,
                 ![1].inserted[source] = @ + Cardinality(st.rows \ rows),
                 ![1].attempted = Append(@, k),
                 ![1].fetchFailed = @ \/ ~outcome.fetched,
                 ![1].addedAfterFailure =
                     @ \/ (proc[1].fetchFailed /\ st.added > 0),
                 ![1].executed = @ \cup hashes,
                 ![1].ignored = @ \cup IgnoredFromOther(rows, hashes, source),
                 ![1].insertRaised = @ \/ InsertRaised(outcome),
                 ![1].skipped = StoredAfterMalformed(rows, outcome)]
    /\ UNCHANGED <<now, op>>

\* self._clean_old_articles(); return stats.  The DELETE may raise as well,
\* and that exception leaves collect_all
FinishCollectAll(raises) ==
    /\ proc[1].pc = "collect_all"
    /\ proc[1].k > Len(Endpoints)
    /\ rows' = IF raises THEN rows ELSE _clean_old_articles(rows, now)
    /\ op' = [name |-> "collect_all", raised |-> raises,
              stats |-> proc[1].stats, inserted |-> proc[1].inserted,
              attempted |-> proc[1].attempted,
              fetchFailed |-> proc[1].fetchFailed,
              addedAfterFailure |-> proc[1].addedAfterFailure,
              executed |-> proc[1].executed, ignored |-> proc[1].ignored,
              insertRaised |-> proc[1].insertRaised]
    /\ proc' = [proc EXCEPT ![1] = [pc |-> "done"]]
    /\ UNCHANGED <<nextId, now>>

\* the stores a run starts from: empty, or one row that an earlier run
\* collected from CNN a day ago, in any selection state
CycleNow == 24

EarlierRow(selected, posted) ==
    [NewRow(1, _generate_hash(<<"a">>, <<"x">>), <<"a">>, <<"x">>,
            Entry(<<"a">>, <<"x">>, "Politics", 10, TRUE, FALSE), "CNN", 0)
       EXCEPT !.selected_for_post = selected, !.posted = posted]

CycleStores ==
    {{}} \cup {{EarlierRow(sp[1], sp[2])} :
                  sp \in {<<FALSE, FALSE>>, <<TRUE, FALSE>>, <<TRUE, TRUE>>}}

InitCycle ==
    /\ rows \in CycleStores
    /\ nextId = Cardinality(rows) + 1
    /\ now = CycleNow
    /\ op = [name |-> "init"]
    /\ proc = NoProc

NextCycle ==
    \/ StartCollectAll
    \/ \E source \in Sources : \E outcome \in FeedOutcomes(source) :
          /\ proc[1].pc = "collect_all"
          /\ proc[1].k <= Len(Endpoints)
          /\ source = Endpoints[proc[1].k]
          /\ AttemptEndpoint(outcome)
    \/ \E raises \in BOOLEAN : FinishCollectAll(raises)

SpecCycle == InitCycle /\ [][NextCycle]_vars

-----------------------------------------------------------------------------
(* Properties of a collect_all run *)

\* C12 as claimed: an INSERT that raises ends the run: collect_feed does
\* not return to the loop of collect_all, and collect_all ends raised.
C12_StoreErrorPropagates ==
    /\ proc[1].pc = "collect_all" => ~proc[1].insertRaised
    /\ op.name = "collect_all" /\ op.insertRaised => op.raised

AllEndpoints == [i \in 1..Len(Endpoints) |-> i]

\* C13: a collect_all run attempts every endpoint exactly once, in order,
\* whatever fetches failed; an endpoint whose fetch fails changes no row
\* and no count; at the end every entry whose INSERT ran has a row.
C13_EveryEndpointAttemptedOnce ==
    [][/\ op'.name = "collect_all" =>
             /\ op'.attempted = AllEndpoints
             /\ \A h \in op'.executed : HashPresent(rows', h)
       /\ AttemptEndpoint(FetchFailed) =>
             /\ rows' = rows
             /\ proc'[1].stats = proc[1].stats
             /\ proc'[1].attempted = Append(proc[1].attempted, proc[1].k)]_vars

\* a run has returned in which a fetch failed and a later endpoint added
\* a row
C13_Witness ==
    /\ op.name = "collect_all"
    /\ ~op.raised
    /\ op.fetchFailed
    /\ op.addedAfterFailure
    /\ \E r \in rows : r.collected_time = now

\* C15: a collect_feed call leaves every stored row as it was, with all
\* its fields, whatever entries it upserts.
C15_UpsertKeepsExistingRow ==
    [][proc[1].pc = "collect_all" /\ proc'[1].pc = "collect_all" =>
          \A r \in rows : r \in rows']_vars

\* an NBC News endpoint has upserted the fingerprint of the Posted row
\* that CNN delivered a day before, and the row still has its CNN values
C15_Witness ==
    /\ proc[1].pc = "collect_all"
    /\ \E r \in rows :
          /\ r.article_hash \in proc[1].ignored
          /\ State(r) = "Posted"
          /\ r.source = "CNN"
          /\ r.category = "Politics"
          /\ r.collected_time < now

WellFormed(feed) == SelectSeq(feed, LAMBDA e : ~Malformed(e))

\* C18: no row has an empty title or link, and collect_feed on any feed
\* does what it does on that feed without its malformed entries: it
\* returns the same store and count, and every well-formed entry of the
\* feed has a row.
C18_MalformedEntriesDropped ==
    /\ \A r \in rows : r.title # <<>> /\ r.link # <<>>
    /\ \A source \in Sources : \A feed \in CycleFeeds(source) :
          LET st == collect_feed(rows, nextId, feed, source, now)
          IN  /\ st = collect_feed(rows, nextId, WellFormed(feed), source, now)
              /\ \A i \in 1..Len(feed) :
                    ~Malformed(feed[i]) => HashPresent(st.rows, HashOf(feed[i]))

\* the last endpoint delivered a malformed entry and after it an entry
\* that was inserted
C18_Witness ==
    /\ proc[1].pc = "collect_all"
    /\ proc[1].skipped
    /\ \E r \in rows : r.collected_time = now

-----------------------------------------------------------------------------
(* get_top_stories called with a window of the caller's choice, on stores  *)
(* whose rows differ in age only.                                          *)

\* the values of `hours` a caller passes
Windows == {12, DefaultHours, 36}

\* the ages, in hours, of the rows of a store
WinAges == << 0, 18, 36, 60 >>

WinStore(s) ==
    {ItemRow(i, Item("Politics", 10, TRUE, FALSE, WinAges[s[i]])) :
        i \in 1..Len(s)}

WinStores ==
    {WinStore(s) : s \in UNION {Ascending(Len(WinAges), n) : n \in 0..WinRows}}

InitWindow ==
    /\ rows \in WinStores
    /\ nextId = Cardinality(rows) + 1
    /\ now = SelNow
    /\ op = [name |-> "init"]
    /\ proc = NoProc

NextWindow ==
    \/ \E count \in 0..MaxCount : \E hours \in Windows :
          GetTopStories(count, hours)
    \/ ResetSelections

SpecWindow == InitWindow /\ [][NextWindow]_vars

SetOf(s) == {s[i] : i \in 1..Len(s)}

\* C21 as claimed: the candidates are the eligible rows of the given
\* window, and only when there are none the eligible rows of a window of
\* twice the given hours.
C21_FallbackDoublesWindow ==
    [][op'.name = "get_top_stories" =>
          SetOf(op'.candidates) =
             IF Eligible(rows, now, op'.hours) # {}
             THEN Eligible(rows, now, op'.hours)
             ELSE Eligible(rows, now, 2 * op'.hours)]_vars

\* C21: the candidates are the eligible rows of the given window, and only
\* when there are none the eligible rows of the last FallbackHours = 48
\* hours, whatever hours were given; no other window is read.
C21_FallbackIs48Hours ==
    [][op'.name = "get_top_stories" =>
          SetOf(op'.candidates) =
             IF Eligible(rows, now, op'.hours) # {}
             THEN Eligible(rows, now, op'.hours)
             ELSE Eligible(rows, now, FallbackHours)]_vars

\* get_top_stories(2, 12) has returned one row, collected more than twice
\* 12 hours ago, and next to it is a row that only a wider window holds
C21_Witness ==
    /\ op.name = "get_top_stories"
    /\ op.hours = 12
    /\ op.count = 2
    /\ Len(op.result) = 1
    /\ op.result[1].collected_time < now - 2 * op.hours
    /\ \E r \in rows :
          State(r) = "Unselected" /\ r.collected_time < now - FallbackHours

-----------------------------------------------------------------------------
(* The keyword filters of collect_feed, computed on texts.  The keyword    *)
(* lists are sublists of those of rss_config.py, in their declared order.  *)

PRIORITY_KEYWORDS ==
    << [level |-> "critical", keywords |-> << <<"v", "o", "t", "e">>, <<"w", "a", "r">> >>, score |-> 10],
       [level |-> "high", keywords |-> << <<"f", "b", "i">>, <<"l", "a", "w">> >>, score |-> 7],
       [level |-> "medium", keywords |-> << <<"m", "e", "t", "a">> >>, score |-> 5] >>

US_KEYWORDS == << <<"u", "s", "a">>, <<"f", "b", "i">> >>

EXCLUSION_KEYWORDS == << <<"m", "e", "m", "e">> >>

CATEGORY_KEYWORDS ==
    << [category |-> "Politics", keywords |-> << <<"v", "o", "t", "e">>, <<"l", "a", "w">> >>],
       [category |-> "Technology", keywords |-> << <<"a", "i">>, <<"m", "e", "t", "a">> >>],
       [category |-> "Justice", keywords |-> << <<"f", "b", "i">> >>],
       [category |-> "International", keywords |-> << <<"w", "a", "r">> >>] >>

\* keyword in text
Contains(text, keyword) ==
    \E i \in 1..(Len(text) - Len(keyword) + 1) :
       SubSeq(text, i, i + Len(keyword) - 1) = keyword

\* any(keyword in text_lower for keyword in keywords)
AnyKeyword(text, keywords) ==
    \E k \in 1..Len(keywords) : Contains(Lower(text), keywords[k])

_is_us_related(text) == AnyKeyword(text, US_KEYWORDS)

\* a text excluded only when it is not US-related
_should_exclude_UnlessUS(text) ==
    AnyKeyword(text, EXCLUSION_KEYWORDS) /\ ~AnyKeyword(text, US_KEYWORDS)

_should_exclude(text) == AnyKeyword(text, EXCLUSION_KEYWORDS)

\* f"{title} {description}"
FullText(title, description) == title \o <<" ">> \o description

\* the inner loop adding the score of a tier once, at its first keyword found
RECURSIVE KeywordsScore_OncePerTier(_, _, _, _)
KeywordsScore_OncePerTier(text, data, k, score) ==
    IF k > Len(data.keywords) THEN score
    ELSE IF Contains(text, data.keywords[k]) THEN score + data.score
         ELSE KeywordsScore_OncePerTier(text, data, k + 1, score)

\* for keyword in data["keywords"]: if keyword in text: score += data["score"]
RECURSIVE KeywordsScore(_, _, _, _)
KeywordsScore(text, data, k, score) ==
    IF k > Len(data.keywords) THEN score
    ELSE KeywordsScore(text, data, k + 1,
                       IF Contains(text, data.keywords[k])
                       THEN score + data.score ELSE score)

\* for level, data in PRIORITY_KEYWORDS.items()
RECURSIVE TiersScore(_, _, _)
TiersScore(text, i, score) ==
    IF i > Len(PRIORITY_KEYWORDS) THEN score
    ELSE TiersScore(text, i + 1,
                    KeywordsScore(text, PRIORITY_KEYWORDS[i], 1, score))

_calculate_priority(title, description) ==
    TiersScore(Lower(FullText(title, description)), 1, 0)

\* sum(1 for keyword in keywords if keyword in text)
KeywordCount(text, keywords) ==
    Cardinality({k \in 1..Len(keywords) : Contains(text, keywords[k])})

\* max() keeping the last of the categories with the highest count
RECURSIVE MaxCategory_LastWins(_, _, _, _)
MaxCategory_LastWins(text, i, best, bestCount) ==
    IF i > Len(CATEGORY_KEYWORDS) THEN best
    ELSE LET count == KeywordCount(text, CATEGORY_KEYWORDS[i].keywords)
         IN  IF count > 0 /\ count >= bestCount
             THEN MaxCategory_LastWins(text, i + 1,
                                       CATEGORY_KEYWORDS[i].category, count)
             ELSE MaxCategory_LastWins(text, i + 1, best, bestCount)

\* max(category_scores, key=category_scores.get) over the categories whose
\* count is positive, in declared order: the first of the highest count;
\* "General" when category_scores is empty
RECURSIVE MaxCategory(_, _, _, _)
MaxCategory(text, i, best, bestCount) ==
    IF i > Len(CATEGORY_KEYWORDS) THEN best
    ELSE LET count == KeywordCount(text, CATEGORY_KEYWORDS[i].keywords)
         IN  IF count > 0 /\ count > bestCount
             THEN MaxCategory(text, i + 1, CATEGORY_KEYWORDS[i].category, count)
             ELSE MaxCategory(text, i + 1, best, bestCount)

_detect_category(title, description) ==
    MaxCategory(Lower(FullText(title, description)), 1, "General", 0)

\* the words the texts of parsed entries are made of
Words == { <<"L", "a", "w">>, <<"v", "o", "t", "e">>, <<"A", "I">>, <<"m", "e", "t", "a">>, <<"f", "b", "i">>, <<"w", "a", "r">>, <<"m", "e", "m", "e">>, <<"U", "S", "A">> }

RECURSIVE Concat(_)
Concat(ws) == IF ws = <<>> THEN <<>> ELSE Head(ws) \o Concat(Tail(ws))

\* titles: one to MaxWords words; descriptions: no word or one
Titles == {Concat(ws) : ws \in SeqsUpTo(Words, MaxWords) \ {<<>>}}

Descriptions == {<<>>} \cup Words

\* the entry collect_feed makes of a title, a description and a link
ParsedEntry(title, description, link) ==
    Entry(title, link,
          _detect_category(Strip(title), description),
          _calculate_priority(Strip(title), description),
          _is_us_related(FullText(Strip(title), description)),
          _should_exclude(FullText(Strip(title), description)))

\* feedparser has parsed a feed of one entry
InitText ==
    /\ rows = {}
    /\ nextId = 1
    /\ now = 0
    /\ op \in {[name |-> "parsed", title |-> t, description |-> d] :
                 t \in Titles, d \in Descriptions}
    /\ proc = NoProc

\* collect_feed runs its loop on the parsed entry
CollectParsed ==
    /\ op.name = "parsed"
    /\ LET st == collect_feed(rows, nextId,
                              << ParsedEntry(op.title, op.description, <<"x">>) >>,
                              "CNN", now)
       IN  /\ rows' = st.rows
           /\ nextId' = st.nextId
           /\ op' = [name |-> "collect_feed", added |-> st.added,
                     title |-> op.title, description |-> op.description]
    /\ UNCHANGED <<now, proc>>

NextText == CollectParsed

SpecText == InitText /\ [][NextText]_vars

-----------------------------------------------------------------------------
(* Properties of the keyword filters *)

\* the lower-cased text the filters of the entry in op are computed on
TextOf(o) == Lower(FullText(Strip(o.title), o.description))

\* the number of the keywords of a list that are substrings of text
Present(text, keywords) ==
    Cardinality({kw \in SetOf(keywords) : Contains(text, kw)})

\* the number of places of text where keyword begins
Occurrences(text, keyword) ==
    Cardinality({i \in 1..Len(text) :
                   /\ i + Len(keyword) - 1 <= Len(text)
                   /\ SubSeq(text, i, i + Len(keyword) - 1) = keyword})

\* the category of CATEGORY_KEYWORDS with the most keywords in text, the
\* earliest declared among equals; "General" when no keyword is in text
TopCategory(text) ==
    LET n(i) == Present(text, CATEGORY_KEYWORDS[i].keywords)
        I == 1..Len(CATEGORY_KEYWORDS)
    IN  IF \A i \in I : n(i) = 0 THEN "General"
        ELSE CATEGORY_KEYWORDS[
                 CHOOSE i \in I : /\ \A j \in I : n(j) <= n(i)
                                  /\ \A j \in I : j < i => n(j) < n(i)].category

\* C22: _detect_category returns the category with the highest number of
\* its keywords present in the lower-cased title and description, the
\* earliest declared on a tie, "General" when none is present; the stored
\* row carries it.
C22_DetectCategoryMaxEarliest ==
    /\ _detect_category(Strip(op.title), op.description) = TopCategory(TextOf(op))
    /\ \A r \in rows : r.category = TopCategory(TextOf(op))

\* a row is stored whose text holds as many keywords of a later category
\* as of its own
C22_Witness ==
    /\ op.name = "collect_feed"
    /\ \E r \in rows : \E i, j \in 1..Len(CATEGORY_KEYWORDS) :
          /\ i < j
          /\ r.category = CATEGORY_KEYWORDS[i].category
          /\ Present(TextOf(op), CATEGORY_KEYWORDS[j].keywords)
                = Present(TextOf(op), CATEGORY_KEYWORDS[i].keywords)

\* sum over the tiers of score times count(tier)
WeightedSum(count(_)) ==
    LET S[i \in 0..Len(PRIORITY_KEYWORDS)] ==
           IF i = 0 THEN 0
           ELSE S[i - 1] + PRIORITY_KEYWORDS[i].score * count(i)
    IN  S[Len(PRIORITY_KEYWORDS)]

\* the number of occurrences in text of the keywords of tier i
TierOccurrences(text, i) ==
    LET kws == PRIORITY_KEYWORDS[i].keywords
        O[k \in 0..Len(kws)] ==
           IF k = 0 THEN 0 ELSE O[k - 1] + Occurrences(text, kws[k])
    IN  O[Len(kws)]

\* C23 as claimed: the score is the sum over the tiers of the tier weight
\* times the number of occurrences of the tier's keywords in the text.
C23_ScoreCountsOccurrences ==
    _calculate_priority(Strip(op.title), op.description)
       = WeightedSum(LAMBDA i : TierOccurrences(TextOf(op), i))

\* C23: the score is the sum over the tiers of the tier weight times the
\* number of the tier's keywords that occur in the text, a keyword that
\* occurs several times counting once; it is not negative, at most the
\* sum of the weights of all keywords, and not lower with the description
\* than without; the stored row carries it.
C23_ScoreCountsKeywordsOnce ==
    LET score == _calculate_priority(Strip(op.title), op.description)
    IN  /\ score = WeightedSum(LAMBDA i :
                      Present(TextOf(op), PRIORITY_KEYWORDS[i].keywords))
        /\ score >= 0
        /\ score <= WeightedSum(LAMBDA i : Len(PRIORITY_KEYWORDS[i].keywords))
        /\ score >= _calculate_priority(Strip(op.title), <<>>)
        /\ \A r \in rows : r.priority_score = score

\* a row is stored whose text holds one keyword twice and keywords of two
\* tiers
C23_Witness ==
    /\ op.name = "collect_feed"
    /\ \E i \in 1..Len(PRIORITY_KEYWORDS) :
          TierOccurrences(TextOf(op), i)
             > Present(TextOf(op), PRIORITY_KEYWORDS[i].keywords)
    /\ \E i, j \in 1..Len(PRIORITY_KEYWORDS) :
          /\ i # j
          /\ Present(TextOf(op), PRIORITY_KEYWORDS[i].keywords) > 0
          /\ Present(TextOf(op), PRIORITY_KEYWORDS[j].keywords) > 0
    /\ \E r \in rows : r.priority_score > 0

\* C24: is_us_related is true exactly when a keyword of US_KEYWORDS is in
\* the lower-cased title and description, is_excluded exactly when one of
\* EXCLUSION_KEYWORDS is; the entry is stored whatever its flags.
C24_FlagsIndependentAndStored ==
    /\ _is_us_related(FullText(Strip(op.title), op.description))
          <=> Present(TextOf(op), US_KEYWORDS) > 0
    /\ _should_exclude(FullText(Strip(op.title), op.description))
          <=> Present(TextOf(op), EXCLUSION_KEYWORDS) > 0
    /\ op.name = "collect_feed" =>
          /\ op.added = 1
          /\ \E r \in rows :
                /\ r.title = Strip(op.title)
                /\ r.is_us_related <=> Present(TextOf(op), US_KEYWORDS) > 0
                /\ r.is_excluded <=> Present(TextOf(op), EXCLUSION_KEYWORDS) > 0

\* a row is stored with both flags set
C24_Witness ==
    /\ op.name = "collect_feed"
    /\ \E r \in rows : r.is_us_related /\ r.is_excluded

-----------------------------------------------------------------------------
(* The counts of a collect_all run *)

\* the rows of the store that were inserted from a source at time t
InsertedAt(rs, source, t) ==
    {r \in rs : r.source = source /\ r.collected_time = t}

\* C25 as claimed: the count collect_all returns for a source is the
\* number of rows inserted from its endpoints during the run, which are
\* the rows of that source collected at the time of the run.
C25_CountsAreRowsInserted ==
    (op.name = "collect_all" /\ ~op.raised) =>
       \A source \in Sources :
          /\ op.stats[source] = op.inserted[source]
          /\ op.stats[source] = Cardinality(InsertedAt(rows, source, now))

-----------------------------------------------------------------------------
(* Posted rows and the ranker *)

\* C26 as claimed: a get_top_stories call returns no row that was Posted
\* when it was called and changes no such row.
C26_PostedNeverReturned ==
    [][op'.name = "get_top_stories" =>
          \A r \in rows :
             r.posted => /\ r.id \notin IdsOf(op'.result)
                         /\ r \in rows']_vars

\* C27 as claimed: get_top_stories(count) returns at most count rows and
\* marks at most count rows Selected; with count = 0 it returns the empty
\* list and changes no row.
C27_AtMostCount ==
    [][op'.name = "get_top_stories" =>
          /\ Len(op'.result) <= op'.count
          /\ Cardinality(rows' \ rows) <= op'.count
          /\ op'.count = 0 => (op'.result = <<>> /\ rows' = rows)]_vars

-----------------------------------------------------------------------------
(* Collection runs and ranking without reset_selections: `fetch_news` and *)
(* `rank_news` of the command line, the scheduled collection, and         *)
(* mark_as_posted.  proc[1].returned holds the fingerprints that          *)
(* get_top_stories calls have returned so far.                            *)

\* collect_all over what the endpoints of each source deliver in this run,
\* source by source, followed by _clean_old_articles
collect_all(rs, nid, delivered, t) ==
    LET cnn == collect_feed(rs, nid, delivered["CNN"], "CNN", t)
        nbc == collect_feed(cnn.rows, cnn.nextId, delivered["NBC News"],
                            "NBC News", t)
    IN  [rows |-> _clean_old_articles(nbc.rows, t), nextId |-> nbc.nextId,
         stats |-> [source \in Sources |->
                       IF source = "CNN" THEN cnn.added ELSE nbc.added]]

\* what the endpoints of a source may deliver in one run: nothing, or one
\* of its entries
Delivered(source) == {f \in Feeds(source) : Len(f) <= 1}

Deliveries ==
    {[source \in Sources |-> IF source = "CNN" THEN cnn ELSE nbc] :
        cnn \in Delivered("CNN"), nbc \in Delivered("NBC News")}

CollectAll(delivered) ==
    LET st == collect_all(rows, nextId, delivered, now)
    IN  /\ rows' = st.rows
        /\ nextId' = st.nextId
        /\ op' = [name |-> "collect_all", stats |-> st.stats]
        /\ UNCHANGED <<now, proc>>

\* rank_news: get_top_stories(count) with no reset before it
RankNews(count) ==
    \E candidates \in ReadCandidates(rows, now, DefaultHours) :
       LET selected == _select_diverse_stories(candidates, count)
       IN  /\ rows' = IF selected # <<>>
                      THEN _mark_as_selected(rows, IdsOf(selected))
                      ELSE rows
           /\ op' = [name |-> "get_top_stories", count |-> count,
                     result |-> selected]
           /\ proc' = [proc EXCEPT
                 ![1].returned = @ \cup SetOf(HashesOf(selected))]
           /\ UNCHANGED <<nextId, now>>

InitNoReset ==
    /\ rows = {}
    /\ nextId = 1
    /\ now = 0
    /\ op = [name |-> "init"]
    /\ proc = [NoProc EXCEPT ![1] = [pc |-> "idle", returned |-> {}]]

NextNoReset ==
    \/ Tick
    \/ \E delivered \in Deliveries : CollectAll(delivered)
    \/ \E count \in 0..MaxCount : RankNews(count)
    \/ \E ids \in SUBSET KnownIds : MarkAsPosted(ids)

SpecNoReset == InitNoReset /\ [][NextNoReset]_vars

\* C28 as claimed: while reset_selections is not called, no get_top_stories
\* call returns an article, identified by its fingerprint, that an earlier
\* get_top_stories call returned.
C28_NoArticleReturnedTwice ==
    [][op'.name = "get_top_stories" =>
          SetOf(HashesOf(op'.result)) \cap proc[1].returned = {}]_vars

-----------------------------------------------------------------------------
(* The daily cycle: run_daily_cycle of the scheduler and generate_posts   *)
(* of the command line.  proc[1].handed holds the fingerprints of the     *)
(* articles that earlier cycles handed to content generation.             *)

MAX_STORIES_PER_DAY == 5

\* reset_selections followed by get_top_stories(count); the rows returned
\* go to content generation
SelectForGeneration(rs, count) ==
    \E candidates \in ReadCandidates(reset_selections(rs), now, DefaultHours) :
       LET selected == _select_diverse_stories(candidates, count)
       IN  /\ rows' = IF selected # <<>>
                      THEN _mark_as_selected(reset_selections(rs),
                                             IdsOf(selected))
                      ELSE reset_selections(rs)
           /\ op' = [name |-> "cycle", count |-> count, result |-> selected]
           /\ proc' = [proc EXCEPT
                 ![1].handed = @ \cup SetOf(HashesOf(selected))]

\* run_daily_cycle: collect_all, reset_selections, get_top_stories
RunDailyCycle(delivered) ==
    LET st == collect_all(rows, nextId, delivered, now)
    IN  /\ SelectForGeneration(st.rows, MAX_STORIES_PER_DAY)
        /\ nextId' = st.nextId
        /\ UNCHANGED now

\* generate_posts(count): reset_selections, get_top_stories(count)
GeneratePosts(count) ==
    /\ SelectForGeneration(rows, count)
    /\ UNCHANGED <<nextId, now>>

InitDaily ==
    /\ rows = {}
    /\ nextId = 1
    /\ now = 0
    /\ op = [name |-> "init"]
    /\ proc = [NoProc EXCEPT ![1] = [pc |-> "idle", handed |-> {}]]

NextDaily ==
    \/ Tick
    \/ \E delivered \in Deliveries : RunDailyCycle(delivered)
    \/ \E count \in 0..MaxCount : GeneratePosts(count)

SpecDaily == InitDaily /\ [][NextDaily]_vars

\* C29 as claimed: no cycle hands to content generation an article that
\* an earlier cycle handed to it.
C29_NoArticleInTwoCycles ==
    [][op'.name = "cycle" =>
          SetOf(HashesOf(op'.result)) \cap proc[1].handed = {}]_vars

-----------------------------------------------------------------------------
(* Fingerprints of pairs of entries: one collect_feed call on an empty    *)
(* store whose feed delivers two entries.                                  *)

\* titles and links of the entries, with letter case, surrounding blanks
\* and the separator of the fingerprint input among their characters
PairTitles ==
    { <<"a">>, <<"A">>, <<" ", "a">>, <<"b">>, <<"a", "|", "a">> }

PairLinks ==
    { <<"x">>, <<"X">>, <<"x", " ">>, <<"a">>, <<"a", "|", "x">> }

PairEntries ==
    {Entry(title, link, "General", 0, TRUE, FALSE) :
        title \in PairTitles, link \in PairLinks}

InitPairs ==
    /\ rows = {}
    /\ nextId = 1
    /\ now = 0
    /\ op \in [name : {"parsed"}, first : PairEntries, second : PairEntries]
    /\ proc = NoProc

CollectPair ==
    /\ op.name = "parsed"
    /\ LET st == collect_feed(rows, nextId, <<op.first, op.second>>, "CNN", now)
       IN  /\ rows' = st.rows
           /\ nextId' = st.nextId
           /\ op' = [name |-> "collect_feed", added |-> st.added,
                     first |-> op.first, second |-> op.second]
    /\ UNCHANGED <<now, proc>>

NextPairs == CollectPair

SpecPairs == InitPairs /\ [][NextPairs]_vars

\* equality of two texts after trimming, ignoring letter case
SameText(s, t) == Lower(Strip(s)) = Lower(Strip(t))

\* C30 as claimed: two entries are stored as a single row exactly when
\* their trimmed titles are equal ignoring letter case and their trimmed
\* links are equal ignoring letter case.
C30_OneRowIffSameTitleAndLink ==
    op.name = "collect_feed" =>
       (Cardinality(rows) = 1 <=>
           /\ SameText(op.first.title, op.second.title)
           /\ SameText(op.first.link, op.second.link))

====
